---- MODULE Spec2Model ----
(***************************************************************************)
(* NetworkMonitor (src/src/netmon.js): the connection life cycle of the    *)
(* network monitor of an instance.  One NetworkMonitor object, the         *)
(* WebSocket objects it creates, its timers, and the asynchronous calls    *)
(* (connect, reconnect, start, clearLog) that are in flight.               *)
(*                                                                         *)
(* JavaScript runs every callback to completion: an event or a timer is a  *)
(* step of its own, and the continuations it makes runnable (promise       *)
(* reactions) are run, in order, from the microtask queue mq before the    *)
(* next event or timer is taken.                                           *)
(***************************************************************************)
EXTENDS Naturals, Sequences, FiniteSets

\* ---------------------------------------------------------------- bounds
MaxWs == 2        \* WebSocket objects not yet closed at one time
MaxLoops == 2     \* loop promises alive at one time
MaxCalls == 2     \* asynchronous API calls in flight at one time
MaxIds == 1       \* correlation ids (requests registered in pending)
MaxHandlers == 1  \* distinct handlers the user registers
MaxArmed == 2     \* keep-alive chains (timers, pong listeners, idle waits) at one time
MaxFails == 2     \* failed attempts of one loop that are counted (the count saturates)

Sockets == 1..MaxWs
Loops == 1..MaxLoops
Calls == 1..MaxCalls
Ids == 1..MaxIds

VARIABLES
    connected,       \* this.connected
    pendingConnect,  \* this.pendingConnect (undefined reads as false)
    connectPromise,  \* this.connectPromise: 0 is null, else the loop whose promise it is
    ws,              \* this.ws: 0 is null/undefined, else the socket
    handler,         \* this.handler: 0 is null, else the registered handler
    pending,         \* this.pending: the ids that have a callback in the map
    keepAlive,       \* this._keepAliveTimeout: the timer handle (w = 0 is null)
    sock,            \* the WebSocket objects: readyState and the listeners on them
    armed,           \* armed[w]: armed deadline timers whose closure captured socket w
    idleWaits,       \* pong continuations waiting on their 10 s timer
    loop,            \* the reconnect loops: where each one is
    call,            \* the API calls in flight
    waitq,           \* calls awaiting an unresolved loop promise, in order of arrival
    mq,              \* the microtask queue
    inflight,        \* ids of handler results that will resolve truthy
    cbCalls,         \* cbCalls[i]: times the callback registered under id i was invoked
    escaped          \* the last step left a rejected promise that nothing handles

vars == <<connected, pendingConnect, connectPromise, ws, handler, pending,
          keepAlive, sock, armed, idleWaits, loop, call, waitq, mq, inflight,
          cbCalls, escaped>>

NoTimer == [w |-> 0, live |-> FALSE]
NoSock == [st |-> "none", errPending |-> FALSE, errOn |-> FALSE, pongL |-> 0]
\* A loop: where it is; the socket whose handshake it awaits; nfail, its failed
\* attempts so far (counted up to MaxFails); owed, the failed attempts not yet
\* followed by their backoff wait.
NoLoop == [pc |-> "none", sock |-> 0, nfail |-> 0, owed |-> 0]
\* A call: its kind and where it is; aw, the loop whose promise it awaits;
\* was, this.connected when it was made; cancelled, disconnect() was called since it
\* began; conn, this.connected when its connect() returned; nf, the failed attempts
\* of the loop that woke it; da, clearLog's disconnectAfter; frames, the text
\* frames it sent.
NoCall == [kind |-> "none", pc |-> "idle", aw |-> 0, was |-> FALSE, cancelled |-> FALSE,
           conn |-> FALSE, nf |-> 0, da |-> FALSE, frames |-> 0]

\* The whole state as one record, so that a handler's statements compose in order.
State ==
    [connected |-> connected, pendingConnect |-> pendingConnect,
     connectPromise |-> connectPromise, ws |-> ws, handler |-> handler,
     pending |-> pending, keepAlive |-> keepAlive, sock |-> sock, armed |-> armed,
     idleWaits |-> idleWaits, loop |-> loop, call |-> call, waitq |-> waitq,
     mq |-> mq, inflight |-> inflight, cbCalls |-> cbCalls,
     escaped |-> escaped]

\* A call has settled: its promise is resolved or rejected.
Settled(k) == k.pc \in {"done", "threw"}

\* The state an event, a timer or a user call starts from: the outcomes of the
\* calls that have settled have been taken, their slots are free; a callback that
\* is in no map any more is unreachable, and what was counted for it is dropped.
Cur ==
    [State EXCEPT !.call = [c \in Calls |-> IF Settled(@[c]) THEN NoCall ELSE @[c]],
                  !.cbCalls = [i \in Ids |-> IF i \in pending THEN @[i] ELSE 0],
                  !.escaped = FALSE]

\* Objects nothing refers to any more are dropped: a loop that ended and whose
\* promise is not this.connectPromise, a closed socket no timer has captured.
Collect(t) ==
    [t EXCEPT !.loop = [l \in Loops |->
                          IF @[l].pc = "done" /\ t.connectPromise # l THEN NoLoop ELSE @[l]],
              !.sock = [w \in Sockets |->
                          IF @[w].st = "closed" /\ t.armed[w] = 0 /\ t.keepAlive.w # w
                          THEN NoSock ELSE @[w]]]

Commit(u) ==
    LET t == Collect(u)
    IN  /\ connected' = t.connected
        /\ pendingConnect' = t.pendingConnect
        /\ connectPromise' = t.connectPromise
        /\ ws' = t.ws
        /\ handler' = t.handler
        /\ pending' = t.pending
        /\ keepAlive' = t.keepAlive
        /\ sock' = t.sock
        /\ armed' = t.armed
        /\ idleWaits' = t.idleWaits
        /\ loop' = t.loop
        /\ call' = t.call
        /\ waitq' = t.waitq
        /\ mq' = t.mq
        /\ inflight' = t.inflight
        /\ cbCalls' = t.cbCalls
        /\ escaped' = t.escaped

Init ==
    /\ connected = FALSE
    /\ pendingConnect = FALSE
    /\ connectPromise = 0
    /\ ws = 0
    /\ handler = 0
    /\ pending = {}
    /\ keepAlive = NoTimer
    /\ sock = [w \in Sockets |-> NoSock]
    /\ armed = [w \in Sockets |-> 0]
    /\ idleWaits = 0
    /\ loop = [l \in Loops |-> NoLoop]
    /\ call = [c \in Calls |-> NoCall]
    /\ waitq = <<>>
    /\ mq = <<>>
    /\ inflight = {}
    /\ cbCalls = [i \in Ids |-> 0]
    /\ escaped = FALSE

\* ------------------------------------------------- the ws library's socket
\* sock[w].st is the socket's readyState, with "failed" for a socket that is
\* closing because its handshake was aborted or it reported an error: nothing more
\* is received on it.  errPending: an aborted handshake's 'error' event is still
\* to be emitted (before its 'close' event).  errOn: the listener of lines 117-132
\* is registered.  pongL: the once('pong') listeners registered.

\* ws.close(): aborts a handshake in progress, starts the close of an open socket,
\* and does nothing to a socket already closing or closed.
wsClose(s, w) ==
    IF s.sock[w].st = "connecting"
    THEN [s EXCEPT !.sock[w].st = "failed", !.sock[w].errPending = TRUE]
    ELSE IF s.sock[w].st = "open"
         THEN [s EXCEPT !.sock[w].st = "closing"]
         ELSE s

\* clearTimeout(this._keepAliveTimeout): disarms the timer if it is still armed.
clearKeepAliveTimeout(s) ==
    IF s.keepAlive.live
    THEN [s EXCEPT !.armed[s.keepAlive.w] = @ - 1, !.keepAlive.live = FALSE]
    ELSE s

\* ------------------------------------------------------- NetworkMonitor
Min(a, b) == IF a < b THEN a ELSE b

\* A _stopKeepAlive() that drops the handle without clearTimeout.
_stopKeepAliveForget(s) ==
    [s EXCEPT !.keepAlive = NoTimer]

_stopKeepAlive(s) ==
    IF s.keepAlive.w # 0
    THEN [clearKeepAliveTimeout(s) EXCEPT !.keepAlive = NoTimer]
    ELSE s

_disconnect(s) ==
    LET s1 == [s EXCEPT !.connected = FALSE, !.handler = 0]
        s2 == _stopKeepAlive(s1)
    IN  IF s2.ws # 0
        THEN [wsClose(s2, s2.ws) EXCEPT !.ws = 0]
        ELSE s2

\* A call is active from the moment it is made until it settles.
Active(c) == c.pc \in {"awaitLoop", "woken", "queued", "sent"}

\* disconnect(); every call in flight notes that disconnect() was called since it began.
disconnect(s) ==
    LET s1 == [s EXCEPT !.pendingConnect = FALSE,
                        !.call = [c \in Calls |->
                                    IF Active(s.call[c])
                                    THEN [s.call[c] EXCEPT !.cancelled = TRUE]
                                    ELSE s.call[c]]]
    IN  _disconnect(s1)

\* A failure that invokes the callbacks and leaves them in the map.
failPendingKeep(s) ==
    [s EXCEPT !.cbCalls = [i \in Ids |-> IF i \in s.pending THEN Min(@[i] + 1, 2) ELSE @[i]]]

\* this.pending.forEach(handler => handler(err)); this.pending = new Map();
failPending(s) ==
    [s EXCEPT !.cbCalls = [i \in Ids |-> IF i \in s.pending THEN Min(@[i] + 1, 2) ELSE @[i]],
              !.pending = {}]

\* _startKeepAlive() with this.connected true and this.ws a socket: ping, arm the
\* deadline timer (the handle replaces the tracked one), listen once for the pong.
_startKeepAlive(s) ==
    IF ~s.connected
    THEN s
    ELSE [s EXCEPT !.armed[s.ws] = @ + 1,
                   !.keepAlive = [w |-> s.ws, live |-> TRUE],
                   !.sock[s.ws].pongL = @ + 1]

\* The calls awaiting loop l's promise, in order of arrival.
Waiters(s, l) == SelectSeq(s.waitq, LAMBDA c : s.call[c].aw = l)

\* Loop l's promise resolves: the continuations of its awaiters are queued.
Settle(s, l) ==
    LET q == Waiters(s, l)
    IN  [s EXCEPT !.mq = @ \o [i \in 1..Len(q) |-> [t |-> "call", id |-> q[i]]],
                  !.waitq = SelectSeq(@, LAMBDA c : s.call[c].aw # l),
                  !.call = [c \in Calls |->
                              IF s.call[c].pc = "awaitLoop" /\ s.call[c].aw = l
                              THEN [s.call[c] EXCEPT !.pc = "woken", !.aw = 0,
                                                     !.nf = s.loop[l].nfail]
                              ELSE s.call[c]]]

\* The end of the loop's async function: this.connectPromise = null, and it returns.
Finish(s, l) ==
    Settle([s EXCEPT !.connectPromise = 0, !.loop[l].pc = "done"], l)

\* A catch block that gives up: the loop ends at the first failed attempt.
CatchGiveUp(s, l) ==
    Finish(s, l)

\* The catch block of the retry loop: the attempt failed, wait 1000 ms.
Catch(s, l) ==
    [s EXCEPT !.loop[l].pc = "backoff",
              !.loop[l].nfail = Min(@ + 1, MaxFails),
              !.loop[l].owed = @ + 1]

\* _connect() up to its first await: the pending map is replaced, the endpoint asked for.
_connect(s, l) ==
    [s EXCEPT !.pending = {}, !.loop[l].pc = "resolving"]

\* A loop that does not look at pendingConnect before its next attempt.
LoopIterAlways(s, l) ==
    _connect(s, l)

\* One evaluation of the loop's while condition and what follows it.
LoopIter(s, l) ==
    IF s.pendingConnect THEN _connect(s, l) ELSE Finish(s, l)

\* await of loop l's promise by call c.
Await(s, c, l) ==
    IF s.loop[l].pc = "done"
    THEN [s EXCEPT !.call[c].pc = "queued",
                   !.mq = Append(@, [t |-> "call", id |-> c])]
    ELSE [s EXCEPT !.call[c].aw = l, !.call[c].pc = "awaitLoop",
                   !.waitq = Append(@, c)]

\* A reconnect() that starts a loop of its own whenever it can, not looking at
\* this.connectPromise.
reconnectEach(s, c) ==
    LET s1 == IF s.connected THEN disconnect(s) ELSE s
    IN  IF \A k \in Loops : s1.loop[k].pc # "none"
        THEN Await(s1, c, s1.connectPromise)
        ELSE LET l == CHOOSE k \in Loops : s1.loop[k].pc = "none"
                 s2 == [s1 EXCEPT !.loop[l] = [NoLoop EXCEPT !.pc = "start"]]
                 s3 == [LoopIter(s2, l) EXCEPT !.connectPromise = l]
             IN  Await(s3, c, l)

\* reconnect() as called for call c.  A new loop runs to its first await before
\* its promise is stored in this.connectPromise.
reconnect(s, c) ==
    LET s1 == IF s.connected THEN disconnect(s) ELSE s
    IN  IF s1.connectPromise # 0
        THEN Await(s1, c, s1.connectPromise)
        ELSE LET l == CHOOSE k \in Loops : s1.loop[k].pc = "none"
                 s2 == [s1 EXCEPT !.loop[l] = [NoLoop EXCEPT !.pc = "start"]]
                 s3 == [LoopIter(s2, l) EXCEPT !.connectPromise = l]
             IN  Await(s3, c, l)

\* reconnect() can be run: a loop it may have to start is within the bound.
CanReconnect(s) ==
    s.connectPromise # 0 \/ \E k \in Loops : s.loop[k].pc = "none"

\* connect() as called for call c; with this.connected true it returns at once.
connect(s, c) ==
    LET s1 == [s EXCEPT !.pendingConnect = TRUE]
    IN  IF s1.connected
        THEN [s1 EXCEPT !.call[c].pc = "queued", !.mq = Append(@, [t |-> "call", id |-> c])]
        ELSE reconnect(s1, c)

\* ------------------------------------------------------------ API calls
\* A call made by the user is an event of its own: it is made with the microtask
\* queue empty, in the first free call slot.
CanCall(c) ==
    /\ mq = <<>>
    /\ Cur.call[c].pc = "idle"
    /\ \A d \in Calls : d < c => Cur.call[d].pc # "idle"

NewCall(s, c, kind) ==
    [s EXCEPT !.call[c] = [NoCall EXCEPT !.kind = kind, !.was = s.connected]]

\* The continuation of call c is run from the microtask queue.
ResumeCall(s, c) ==
    LET k == s.call[c]
    IN  CASE k.kind \in {"connect", "reconnect"} ->
               [s EXCEPT !.call[c].pc = "done", !.call[c].conn = s.connected]
          [] k.kind = "start" ->
               \* await this._fetch('/sslsplit/enable', {method: 'POST'})
               [s EXCEPT !.call[c].pc = "done", !.call[c].conn = s.connected]
          [] k.kind = "clearLog" /\ k.pc \in {"queued", "woken"} ->
               \* await this.ws.send(...): a TypeError without a socket, an error
               \* on one still connecting, nothing sent on one no longer open
               IF s.ws = 0 \/ s.sock[s.ws].st = "connecting"
               THEN [s EXCEPT !.call[c].pc = "threw", !.call[c].conn = s.connected]
               ELSE [s EXCEPT !.call[c].pc = "sent", !.call[c].conn = s.connected,
                              !.call[c].frames = IF s.sock[s.ws].st = "open" THEN 1 ELSE 0,
                              !.mq = Append(@, [t |-> "call", id |-> c])]
          [] k.kind = "clearLog" /\ k.pc = "sent" ->
               IF k.da
               THEN [disconnect(s) EXCEPT !.call[c].pc = "done"]
               ELSE [s EXCEPT !.call[c].pc = "done"]

\* nm.connect()
Connect(c) ==
    /\ CanCall(c)
    /\ connected \/ CanReconnect(Cur)
    /\ Commit(connect(NewCall(Cur, c, "connect"), c))

\* nm.reconnect()
Reconnect(c) ==
    /\ CanCall(c)
    /\ CanReconnect(Cur)
    /\ Commit(reconnect(NewCall(Cur, c, "reconnect"), c))

\* nm.start(), up to its await of connect()
Start(c) ==
    /\ CanCall(c)
    /\ connected \/ CanReconnect(Cur)
    /\ Commit(connect(NewCall(Cur, c, "start"), c))

\* nm.clearLog(), up to its await of connect() or, when connected, of its send
ClearLog(c) ==
    /\ CanCall(c)
    /\ connected \/ CanReconnect(Cur)
    /\ LET s == NewCall(Cur, c, "clearLog")
       IN  IF s.connected
           THEN Commit(ResumeCall([s EXCEPT !.call[c].pc = "queued"], c))
           ELSE Commit(connect([s EXCEPT !.call[c].da = TRUE], c))

\* nm.disconnect()
Disconnect ==
    /\ mq = <<>>
    /\ Commit(disconnect(Cur))

\* nm.handleMessage(h)
handleMessage(h) ==
    /\ mq = <<>>
    /\ handler # h
    /\ Commit([Cur EXCEPT !.handler = h])

\* A request is issued on the open connection: its callback is put in pending.
AddPending(i) ==
    /\ mq = <<>>
    /\ connected
    /\ i \notin pending \cup inflight
    /\ Commit([Cur EXCEPT !.pending = @ \cup {i}])

\* The rest of _connect() after the open handshake: connected, keep-alive started;
\* then the loop breaks and ends.  Without a socket, ws.ping() is a TypeError
\* thrown out of _connect(), which the loop catches.
_connectOpened(s, l) ==
    LET s1 == [s EXCEPT !.connected = TRUE]
    IN  IF s1.ws = 0
        THEN Catch(s1, l)
        ELSE Finish(_startKeepAlive(s1), l)

\* One microtask: the continuation at the head of the queue.
Microtask ==
    /\ mq # <<>>
    /\ LET m == Head(mq)
           s == [State EXCEPT !.mq = Tail(@)]
       IN  IF m.t = "call"
           THEN Commit(ResumeCall(s, m.id))
           ELSE Commit(_connectOpened(s, m.id))

\* ------------------------------------------------------ the retry loop
\* _connect() after the endpoint is known: cancelled if pendingConnect was cleared,
\* else a socket is created, stored in this.ws, and its open handshake awaited.
_connectResolved(s, l) ==
    IF ~s.pendingConnect
    THEN Catch(s, l)
    ELSE LET w == CHOOSE k \in Sockets : s.sock[k].st = "none"
         IN  [s EXCEPT !.sock[w] = [NoSock EXCEPT !.st = "connecting"],
                       !.ws = w,
                       !.loop[l].sock = w,
                       !.loop[l].pc = "opening"]

\* instance.netmonEndpoint() resolves.
EndpointOk(l) ==
    /\ mq = <<>>
    /\ loop[l].pc = "resolving"
    /\ pendingConnect => \E k \in Sockets : sock[k].st = "none"
    /\ Commit(_connectResolved(Cur, l))

\* instance.netmonEndpoint() rejects: _connect() throws, the loop catches.
EndpointFail(l) ==
    /\ mq = <<>>
    /\ loop[l].pc = "resolving"
    /\ Commit(Catch(Cur, l))

\* The 1000 ms timer of the catch block fires: the while condition is evaluated.
BackoffFire(l) ==
    /\ mq = <<>>
    /\ loop[l].pc = "backoff"
    /\ Commit(LoopIter([Cur EXCEPT !.loop[l].owed = @ - 1], l))

\* -------------------------------------------------------- socket events
\* The loops that await the open handshake of socket w.
Opening(s, w) == {l \in Loops : s.loop[l].pc = "opening" /\ s.loop[l].sock = w}

\* reject(...) of the handshake promise: _connect() throws, the loop catches.
Reject(s, w) ==
    IF Opening(s, w) # {} THEN Catch(s, CHOOSE l \in Opening(s, w) : TRUE) ELSE s

\* resolve() of the handshake promise: the rest of _connect() is queued.
Resolve(s, w) ==
    IF Opening(s, w) # {}
    THEN LET l == CHOOSE k \in Opening(s, w) : TRUE
         IN  [s EXCEPT !.loop[l].pc = "opened", !.mq = Append(@, [t |-> "loop", id |-> l])]
    ELSE s

\* ws.once('open', ...), lines 107-135
onOpen(s, w) ==
    IF s.ws # w
    THEN Reject(wsClose(s, w), w)
    ELSE Resolve([s EXCEPT !.sock[w].errOn = TRUE], w)

\* ws.once('error', ...), lines 137-147
onHandshakeError(s, w) ==
    Reject(IF s.ws = w THEN _disconnect(s) ELSE wsClose(s, w), w)

\* ws.on('error', ...), lines 117-132
onError(s, w) ==
    LET s1 == failPending(s)
    IN  IF s1.ws = w THEN _disconnect(s1) ELSE wsClose(s1, w)

\* An 'error' event of socket w: the once listener, then the one added at open.
emitError(s, w) ==
    LET s1 == onHandshakeError(s, w)
    IN  IF s.sock[w].errOn THEN onError(s1, w) ELSE s1

\* A close listener that puts a desired connection back in the retry loop.
onCloseRetry(s, w) ==
    LET s1 == _disconnect(failPending(s))
    IN  IF s1.pendingConnect /\ s1.connectPromise = 0 /\ \E k \in Loops : s1.loop[k].pc = "none"
        THEN LET l == CHOOSE k \in Loops : s1.loop[k].pc = "none"
             IN  [LoopIter([s1 EXCEPT !.loop[l] = [NoLoop EXCEPT !.pc = "start"]], l)
                     EXCEPT !.connectPromise = l]
        ELSE s1

\* ws.on('close', ...), lines 98-104
onClose(s, w) ==
    _disconnect(failPending(s))

\* ws.on('message', ...), lines 74-96, for a message of id i whose handling ends as o
onMessage(s, w, i, o) ==
    IF s.handler = 0
    THEN s
    ELSE [s EXCEPT !.inflight = IF o = "done" THEN @ \cup {i} ELSE @,
                   !.escaped = (o = "reject")]

\* A pong listener without the check that its socket is still this.ws.
onPongAny(s, w) ==
    LET n == s.sock[w].pongL
        s1 == [s EXCEPT !.sock[w].pongL = 0]
    IN  [clearKeepAliveTimeout(s1) EXCEPT !.keepAlive = NoTimer, !.idleWaits = @ + n]

\* ws.once('pong', ...), lines 181-191, up to its await; every listener registered runs
onPong(s, w) ==
    LET n == s.sock[w].pongL
        s1 == [s EXCEPT !.sock[w].pongL = 0]
    IN  IF s1.ws # w
        THEN s1
        ELSE [clearKeepAliveTimeout(s1) EXCEPT !.keepAlive = NoTimer, !.idleWaits = @ + n]

\* The deadline timer's callback, lines 162-179
onDeadline(s, w) ==
    IF s.ws # w
    THEN wsClose(s, w)
    ELSE _disconnect(failPending(s))

\* The handshake of socket w completes.
WsOpen(w) ==
    /\ mq = <<>>
    /\ sock[w].st = "connecting"
    /\ Commit(onOpen([Cur EXCEPT !.sock[w].st = "open"], w))

\* Socket w fails (handshake refused, connection lost): it emits 'error'.
WsFail(w) ==
    /\ mq = <<>>
    /\ sock[w].st \in {"connecting", "open"}
    /\ Commit(emitError([Cur EXCEPT !.sock[w].st = "failed"], w))

\* The 'error' event of a handshake aborted by close().
WsAbortError(w) ==
    /\ mq = <<>>
    /\ sock[w].st = "failed"
    /\ sock[w].errPending
    /\ Commit(emitError([Cur EXCEPT !.sock[w].errPending = FALSE], w))

\* The 'close' event of socket w: after its close() or failure, or closed by the peer.
WsClose(w) ==
    /\ mq = <<>>
    /\ sock[w].st \in {"open", "closing", "failed"}
    /\ ~sock[w].errPending
    /\ Commit(onClose([Cur EXCEPT !.sock[w].st = "closed"], w))

\* How the handling of a message ends: the handler returns falsy, returns truthy
\* (or a promise of it), throws (caught at line 93), or returns a promise that is
\* rejected: the promise made by .then() at line 88 is rejected and has no handler.
Outcomes == {"keep", "done", "throw", "reject"}

\* A message arrives on socket w (also while the socket is closing).
WsMessage(w, i, o) ==
    /\ mq = <<>>
    /\ sock[w].st \in {"open", "closing"}
    /\ Commit(onMessage(Cur, w, i, o))

\* The handler's result for a message of id i resolves truthy: pending.delete(id).
HandlerResolve(i) ==
    /\ mq = <<>>
    /\ i \in inflight
    /\ Commit([Cur EXCEPT !.inflight = @ \ {i}, !.pending = @ \ {i}])

\* The pong of a ping arrives on socket w.
WsPong(w) ==
    /\ mq = <<>>
    /\ sock[w].st \in {"open", "closing"}
    /\ sock[w].pongL > 0
    /\ (ws = w) => idleWaits + sock[w].pongL <= MaxArmed
    /\ Commit(onPong(Cur, w))

\* The 10 s wait of a pong listener ends: this._startKeepAlive().  Connected
\* without a socket, ws.ping() is a TypeError and nothing is armed.
IdleFire ==
    /\ mq = <<>>
    /\ idleWaits > 0
    /\ (connected /\ ws # 0) => (armed[ws] < MaxArmed /\ sock[ws].pongL < MaxArmed)
    /\ LET s == [Cur EXCEPT !.idleWaits = @ - 1]
       IN  IF s.connected /\ s.ws = 0 THEN Commit(s) ELSE Commit(_startKeepAlive(s))

\* A deadline timer that captured socket w fires: the tracked one (tr) or another.
DeadlineFire(w, tr) ==
    /\ mq = <<>>
    /\ IF tr
       THEN keepAlive.live /\ keepAlive.w = w
       ELSE armed[w] > (IF keepAlive.live /\ keepAlive.w = w THEN 1 ELSE 0)
    /\ LET s == [Cur EXCEPT !.armed[w] = @ - 1,
                            !.keepAlive.live = IF tr THEN FALSE ELSE @]
       IN  Commit(onDeadline(s, w))

\* ------------------------------------------- events before the resumption
\* resolve() in the 'open' listener only queues the continuation of _connect() as
\* a promise job.  Node runs the process.nextTick queue before the promise jobs,
\* and the data that came with the handshake response is read from the socket in
\* a nextTick callback: a message or an error of the socket just opened can be
\* delivered between its 'open' event and the resumption of _connect().

\* The continuation of loop l's _connect() is the next promise job.
Resuming(l) ==
    mq # <<>> /\ Head(mq).t = "loop" /\ Head(mq).id = l /\ loop[l].pc = "opened"

\* A message of socket w is dispatched before _connect() resumes, and the handler
\* (user code) calls nm.disconnect().
WsMessageDisconnect(w) ==
    /\ \E l \in Loops : Resuming(l) /\ loop[l].sock = w
    /\ sock[w].st = "open"
    /\ handler # 0
    /\ Commit(disconnect(State))

\* Socket w reports an error (an invalid frame) before _connect() resumes.
WsFailEarly(w) ==
    /\ \E l \in Loops : Resuming(l) /\ loop[l].sock = w
    /\ sock[w].st = "open"
    /\ Commit(emitError([State EXCEPT !.sock[w].st = "failed"], w))

NextEarly ==
    \/ \E w \in Sockets : WsMessageDisconnect(w)
    \/ \E w \in Sockets : WsFailEarly(w)

\* ------------------------------------------------------- specification
\* connect(), disconnect(), the retry loop and the events of its sockets.
NextCore ==
    \/ \E c \in Calls : Connect(c)
    \/ Disconnect
    \/ Microtask
    \/ \E l \in Loops : EndpointOk(l)
    \/ \E l \in Loops : EndpointFail(l)
    \/ \E l \in Loops : BackoffFire(l)
    \/ \E w \in Sockets : WsOpen(w)
    \/ \E w \in Sockets : WsFail(w)
    \/ \E w \in Sockets : WsAbortError(w)
    \/ \E w \in Sockets : WsClose(w)

\* The other calls of the API.
NextApi ==
    \/ \E c \in Calls : Reconnect(c)
    \/ \E c \in Calls : Start(c)
    \/ \E c \in Calls : ClearLog(c)

\* The traffic of a connection: the handler, requests, messages, the keep-alive.
NextTraffic ==
    \/ \E h \in 1..MaxHandlers : handleMessage(h)
    \/ \E i \in Ids : AddPending(i)
    \/ \E w \in Sockets, i \in Ids, o \in Outcomes : WsMessage(w, i, o)
    \/ \E i \in Ids : HandlerResolve(i)
    \/ \E w \in Sockets : WsPong(w)
    \/ IdleFire
    \/ \E w \in Sockets, tr \in BOOLEAN : DeadlineFire(w, tr)

Next == NextCore \/ NextApi \/ NextTraffic \/ NextEarly

\* The whole program.
Spec == Init /\ [][Next]_vars

\* The API calls over the retry loop, on connections that carry no traffic.
SpecCalls == Init /\ [][NextCore \/ NextApi]_vars

\* The connection and its traffic, driven by connect() and disconnect() alone.
SpecLink == Init /\ [][NextCore \/ NextTraffic]_vars

\* connect(), disconnect(), a handler, and the events of a socket that are
\* delivered before the attempt that opened it has resumed.
SpecEarly ==
    Init /\ [][NextCore \/ (\E h \in 1..MaxHandlers : handleMessage(h)) \/ NextEarly]_vars

\* SpecCalls, where what is runnable runs, every socket's events are delivered,
\* and the endpoint resolution and the handshake do not fail for ever.
FairCalls ==
    /\ SpecCalls
    /\ WF_vars(Microtask)
    /\ WF_vars(\E l \in Loops : BackoffFire(l))
    /\ WF_vars(\E w \in Sockets : WsAbortError(w))
    /\ WF_vars(\E w \in Sockets : WsClose(w))
    /\ SF_vars(\E l \in Loops : EndpointOk(l))
    /\ SF_vars(\E w \in Sockets : WsOpen(w))

\* connect(), disconnect(), the retry loop and its sockets alone, where what is
\* runnable runs, every socket's events are delivered, and the endpoint resolution
\* and the handshake do not fail for ever.
FairCore ==
    /\ Init /\ [][NextCore]_vars
    /\ WF_vars(Microtask)
    /\ WF_vars(\E l \in Loops : BackoffFire(l))
    /\ WF_vars(\E w \in Sockets : WsAbortError(w))
    /\ WF_vars(\E w \in Sockets : WsClose(w))
    /\ SF_vars(\E l \in Loops : EndpointOk(l))
    /\ SF_vars(\E w \in Sockets : WsOpen(w))

\* ---------------------------------------------------------------- claims
Running(k) == k.pc \in {"start", "resolving", "opening", "opened", "backoff"}
Ended(k) == k.pc \in {"none", "done"}

\* An event of socket w is delivered: its message, close or error listeners run.
\* The connection is open: connected, on a socket, the loop that made it has ended.
OpenConn == connected /\ ws # 0 /\ \A l \in Loops : ~Running(loop[l])

StaleEvent(w) ==
    \/ WsClose(w)
    \/ WsFail(w)
    \/ WsAbortError(w)
    \/ \E i \in Ids, o \in Outcomes : WsMessage(w, i, o)

\* C1: the message, close and error events of a superseded socket (another socket
\* is this.ws) leave connected, pending, the handler and the current socket as
\* they are, and do not invoke the handler (no handler result comes to be awaited).
C1_StaleInert ==
    [][\A w \in Sockets :
         (ws # 0 /\ ws # w /\ StaleEvent(w)) =>
            /\ connected' = connected
            /\ pending' = pending
            /\ handler' = handler
            /\ inflight' = inflight
            /\ ws' = ws
            /\ sock'[ws] = sock[ws]]_vars

ConnectKinds == {"connect", "start"}

\* C2: a connect() (or start()) call resolves only with connected true or after
\* disconnect() was called since the call began.
C2_ResolvesConnected ==
    \A c \in Calls :
        (call[c].kind \in ConnectKinds /\ call[c].pc = "done") =>
            (call[c].conn \/ call[c].cancelled)

\* One step of the retry loops, as C3 has it.
C3_Step ==
    /\ \A l \in Loops :
        LET a == loop[l]
            b == loop'[l]
        IN  \* an attempt ends in the handshake's success or in one owed backoff wait
            /\ (a.pc = "resolving" /\ b.pc # a.pc) =>
                   (b.pc = "opening" /\ b.owed = 0) \/ (b.pc = "backoff" /\ b.owed = 1)
            /\ (a.pc = "opening" /\ b.pc # a.pc) =>
                   (b.pc = "opened" /\ b.owed = 0) \/ (b.pc = "backoff" /\ b.owed = 1)
            \* after the handshake the loop ends, connected, unless the attempt
            \* fails after all
            /\ (a.pc = "opened" /\ b.pc # a.pc) =>
                   (Ended(b) /\ connected') \/ (b.pc = "backoff" /\ b.owed = 1)
            \* the wait is taken once, and then the next attempt is made if desired
            /\ (a.pc = "backoff" /\ b.pc # a.pc) =>
                   IF pendingConnect THEN b.pc = "resolving" /\ b.owed = 0 ELSE Ended(b)
            \* the loop never gives up: it ends connected, or cancelled
            /\ (Running(a) /\ Ended(b)) => (connected' \/ ~pendingConnect)
    \* a woken call on which disconnect() was not called resumes connected
    /\ \A c \in Calls :
        (/\ call[c].pc = "woken"
         /\ call'[c].pc # "woken"
         /\ call[c].kind \in ConnectKinds \cup {"clearLog"}
         /\ ~call[c].cancelled) => connected

\* C3: while desired stays true the loop retries after every failed attempt, with
\* one backoff wait each, and never gives up; when an attempt succeeds the loop
\* ends, and the connect() calls awaiting it resolve with connected true.  A call
\* that awaits the loop is eventually resolved.
C3_Retry ==
    /\ [][C3_Step]_vars
    /\ \A c \in Calls : (call[c].pc = "awaitLoop") ~> (call[c].pc # "awaitLoop")

\* A connect() call resolved with connected true after MaxFails failed attempts.
C3_Witness ==
    \E c \in Calls :
        /\ call[c].kind = "connect" /\ call[c].pc = "done"
        /\ call[c].conn /\ ~call[c].cancelled
        /\ call[c].nf = MaxFails

\* One step with a loop in its backoff wait and desired false before and after.
C4_Step ==
    /\ \A l \in Loops :
        (loop[l].pc = "backoff" /\ ~pendingConnect /\ ~pendingConnect') =>
            /\ \A w \in Sockets : sock[w].st = "none" => sock'[w].st = "none"
            /\ ~connected => ~connected'
            /\ \/ loop'[l].pc = "backoff"
               \/ /\ Ended(loop'[l])
                  /\ \A c \in Calls :
                       (call[c].pc = "awaitLoop" /\ call[c].aw = l) => call'[c].pc = "woken"
    /\ \A c \in Calls :
        (/\ call[c].pc = "woken"
         /\ call'[c].pc # "woken"
         /\ call[c].kind \in ConnectKinds \cup {"reconnect"}) => call'[c].pc = "done"

\* C4: after disconnect() during the backoff wait, with no further connect(), the
\* loop ends without creating a socket, the calls awaiting it resolve without
\* error, and connected does not become true.
C4_CancelInBackoff ==
    /\ [][C4_Step]_vars
    /\ \A l \in Loops :
         (loop[l].pc = "backoff" /\ ~pendingConnect) ~> (Ended(loop[l]) \/ pendingConnect)

\* A connect() call cancelled after a failed attempt has resolved, not connected.
C4_Witness ==
    \E c \in Calls :
        /\ call[c].kind = "connect" /\ call[c].pc = "done"
        /\ call[c].cancelled /\ ~call[c].conn /\ call[c].nf >= 1
        /\ ~pendingConnect /\ ~connected /\ ws = 0
        /\ \A l \in Loops : ~Running(loop[l])

C5_Inv ==
    /\ Cardinality({l \in Loops : Running(loop[l])}) <= 1
    /\ \A c \in Calls :
         call[c].pc = "awaitLoop" =>
            (call[c].aw = connectPromise /\ Running(loop[connectPromise]))

C5_Step ==
    \A c, d \in Calls :
        (call[c].pc = "awaitLoop" /\ call[d].pc = "awaitLoop" /\ call'[c].pc # "awaitLoop") =>
            /\ call'[c].pc = "woken" /\ call'[d].pc = "woken"
            /\ call'[c].nf = call'[d].nf

\* C5: at most one reconnect loop runs; every call that awaits a connection awaits
\* that loop, and all of them are resolved together, by its one outcome.
C5_SingleFlight == []C5_Inv /\ [][C5_Step]_vars

\* Two calls made during one attempt have both resolved, connected.
C5_Witness ==
    /\ \A c \in {1, 2} : call[c].pc = "done" /\ call[c].conn /\ ~call[c].was
    /\ Cardinality({l \in Loops : Running(loop[l])}) = 0

C7_Claim ==
    \A c \in Calls :
        (call[c].kind = "reconnect" /\ call[c].pc = "done" /\ call[c].was /\ ~call[c].cancelled) =>
            (call[c].conn /\ connected /\ ws # 0 /\ pendingConnect)

\* C8: when disconnect() returns, desired and connected are false, this.ws is
\* cleared and the socket it held is closing, the handler is cleared, and the
\* tracked deadline timer is disarmed.
C8_Disconnected ==
    [][Disconnect =>
         /\ ~pendingConnect' /\ ~connected' /\ ws' = 0 /\ handler' = 0
         /\ keepAlive' = NoTimer
         /\ ws # 0 => sock'[ws].st \notin {"connecting", "open"}
         /\ keepAlive.live => armed'[keepAlive.w] = armed[keepAlive.w] - 1]_vars

\* disconnect() has torn down an open connection whose deadline timer was armed.
C8_Witness ==
    /\ ~pendingConnect /\ ~connected /\ ws = 0 /\ keepAlive = NoTimer
    /\ \E w \in Sockets : sock[w].st = "closing" /\ sock[w].pongL > 0 /\ armed[w] = 0

\* C9: start() posts /sslsplit/enable only with connected true.
C9_Claim ==
    \A c \in Calls :
        (call[c].kind = "start" /\ call[c].pc = "done") => call[c].conn

\* C10: clearLog() sends one frame on an open socket and restores the status of
\* the connection: still connected if it was, disconnected again if it was not.
C10_Claim ==
    \A c \in Calls :
        call[c].kind = "clearLog" =>
            /\ call[c].pc # "threw"
            /\ call[c].pc = "done" =>
                 /\ call[c].frames = 1
                 /\ call[c].was => (connected /\ ws # 0)
                 /\ ~call[c].was => (~connected /\ ws = 0)

\* C11: a probe is sent and its deadline timer armed on a transport only when no
\* earlier probe of that transport awaits its pong and no deadline timer is armed
\* for it; a pong in time cancels the deadline timer and starts one idle wait, so
\* that the wait for a pong and the idle wait never overlap.
C11_Claim ==
    [][\A w \in Sockets :
          /\ armed'[w] > armed[w] => (armed[w] = 0 /\ sock[w].pongL = 0)
          /\ (WsPong(w) /\ ws = w /\ connected) =>
                (armed'[w] = 0 /\ idleWaits' = idleWaits + 1)]_vars

\* C12: an attempt in flight when disconnect() is called, with no connect() since,
\* never becomes the connection: while desired is false connected is false and
\* no socket is connecting or open, and no socket is created.
C12_Claim ==
    /\ [](~pendingConnect =>
            /\ ~connected
            /\ \A w \in Sockets : sock[w].st \notin {"connecting", "open"})
    /\ [][~pendingConnect =>
            \A w \in Sockets : sock[w].st = "none" => sock'[w].st = "none"]_vars

\* C13: a failure of the open connection invokes every callback that is in pending
\* once and leaves pending empty; a callback is invoked only while it is in
\* pending and is out of it afterwards, so that none is ever invoked twice.
C13_FailOnce ==
    /\ [](\A i \in Ids : cbCalls[i] <= 1)
    /\ [][/\ (OpenConn /\ ~connected' /\ pendingConnect') =>
               (pending' = {} /\ \A i \in pending : cbCalls'[i] = 1)
          /\ \A i \in Ids :
               cbCalls'[i] > cbCalls[i] => (i \in pending /\ i \notin pending')]_vars

\* The open connection failed with a request outstanding: its callback was invoked.
C13_Witness ==
    /\ \E i \in Ids : cbCalls[i] = 1
    /\ pending = {} /\ ~connected /\ pendingConnect /\ ws = 0

\* C14: an entry leaves pending only in a step that invokes its callback with an
\* error, or by the handler's 'done' for its id.
C14_Claim ==
    [][\A i \in pending :
          i \notin pending' => (cbCalls'[i] = 1 \/ (i \in inflight /\ i \notin inflight'))]_vars

\* C15: whenever connected is true, this.ws holds a socket.
C15_ConnectedHasTransport == connected => ws # 0

\* C16: a pong of a socket that is not this.ws changes nothing: the deadline timers
\* stay as they are, no idle wait (and so no further probe) is started, and
\* connected, this.ws, pending and the handler are unchanged.
C16_StalePong ==
    [][\A w \in Sockets :
          (WsPong(w) /\ ws # w) =>
             /\ keepAlive' = keepAlive /\ armed' = armed /\ idleWaits' = idleWaits
             /\ connected' = connected /\ ws' = ws
             /\ pending' = pending /\ handler' = handler]_vars

\* The pong of a superseded socket was delivered while the probe of this.ws awaits
\* its own: the deadline timer of this.ws is armed and tracked.
C16_Witness ==
    \E w \in Sockets :
        /\ ws # 0 /\ ws # w /\ connected
        /\ sock[w].st = "closing" /\ sock[w].errOn /\ sock[w].pongL = 0
        /\ idleWaits = 0
        /\ keepAlive = [w |-> ws, live |-> TRUE] /\ armed[ws] = 1 /\ sock[ws].pongL = 1

\* C17: a failure of the handler, thrown or as a rejected promise, does not leave
\* the dispatch of the message, and the dispatch leaves the socket open and
\* connected, this.ws and pending unchanged.
C17_Claim ==
    /\ [](~escaped)
    /\ [][\A w \in Sockets, i \in Ids, o \in Outcomes :
            WsMessage(w, i, o) =>
               /\ connected' = connected /\ ws' = ws /\ pending' = pending
               /\ sock'[w].st = sock[w].st]_vars

\* C18: this.connectPromise is set exactly while a reconnect loop is running.
C18_Claim == (connectPromise # 0) <=> (\E l \in Loops : Running(loop[l]))

\* C19: at most one deadline timer is armed, and it is the one this._keepAliveTimeout
\* holds.
C19_Claim ==
    \A w \in Sockets :
        /\ armed[w] <= 1
        /\ armed[w] = 1 => (keepAlive.live /\ keepAlive.w = w)

\* C20: the registered handler changes only by handleMessage() or in disconnect().
C20_Claim ==
    [][(handler # 0 /\ handler' # handler) =>
          (Disconnect \/ \E h \in 1..MaxHandlers : handleMessage(h))]_vars

====
